---- MODULE Spec2Model ----
(***************************************************************************)
(* tokio-tun: creation, configuration and teardown of a TUN/TAP interface  *)
(* (Tun::new, Tun::allocate, Interface::new, Interface::init, the Drop     *)
(* impls) and the readiness-driven poll loops of the async adapter         *)
(* (Tun::poll_read, Tun::poll_write, Tun::poll_flush).                     *)
(*                                                                         *)
(* Two specifications share the variables:                                 *)
(*   Spec    the life cycle: one device is created with a parameter set    *)
(*           and a kernel failure point, then its adapters are dropped;    *)
(*   SpecIO  the poll loops of one live adapter against the reactor and    *)
(*           the kernel.                                                   *)
(***************************************************************************)
EXTENDS Integers, Sequences, FiniteSets, TLC

\* ---------------------------------------------------------------- bounds
\* Largest number of queues (device-node handles) of one interface.
MaxQueues == 2
\* Largest number of readiness events the reactor delivers per direction.
MaxTick == 2
\* Largest number of packets queued in the kernel for reading.
MaxPkts == 1

\* ------------------------------------------------------ program constants
\* libc flag bits used by the code.
IFF_MULTI_QUEUE == 256
IFF_UP == 1
IFF_RUNNING == 64
\* Attach flags the Params collaborator supplies (tun/tap selection, no-pi).
IFF_TUN == 1
IFF_TAP == 2
IFF_NO_PI == 4096

\* The control socket's handle; device-node handles are 1..MaxQueues.
SOCK == 0

\* Absent optional fields (Option::None).
None == -1
NoAddr == <<>>

\* Bitwise OR of two non-negative i16 values (the `|=` of the code).
RECURSIVE BitOr(_, _)
BitOr(a, b) ==
    IF a = 0 THEN b
    ELSE IF b = 0 THEN a
    ELSE (IF a % 2 = 1 \/ b % 2 = 1 THEN 1 ELSE 0) + 2 * BitOr(a \div 2, b \div 2)

\* Whether every bit of b is set in a.
HasBits(a, b) == BitOr(a, b) = a

\* ------------------------------------------------------------ parameters
\* Params as the builder hands them to Tun::new: every optional field is
\* absent or carries one value.
ParamNames == {"", "tun7"}
ParamFlags == {BitOr(IFF_TUN, IFF_NO_PI), IFF_TAP}
ParamSet ==
    [name : ParamNames, flags : ParamFlags,
     mtu : {None, 1350}, owner : {None, 1000}, group : {None, 100},
     address : {NoAddr, <<10, 21, 22, 1>>},
     netmask : {NoAddr, <<255, 255, 255, 0>>},
     destination : {NoAddr, <<10, 22, 23, 1>>},
     broadcast : {NoAddr, <<255, 255, 255, 255>>},
     persist : BOOLEAN, up : BOOLEAN]

NoParams ==
    [name |-> "", flags |-> IFF_TAP, mtu |-> None, owner |-> None,
     group |-> None, address |-> NoAddr, netmask |-> NoAddr,
     destination |-> NoAddr, broadcast |-> NoAddr,
     persist |-> FALSE, up |-> FALSE]

VARIABLES
    st,        \* "start" | "live" | "failed" | "dropped": where Tun::new got
    params,    \* the Params the device was created with
    queues,    \* queue_count of the allocation
    log,       \* the requests of creation and teardown, in order, with results
    kern,      \* the kernel's state of the interface
    opened,    \* handles successfully opened so far
    closes,    \* handle -> number of close calls made on it
    err,       \* index in log of the request whose error was returned, 0 if none
    ifname,    \* Interface.name (resolved at creation), "?" while no Interface
    refs,      \* strong count of the Arc<Interface>
    tuns       \* queues whose Tun (adapter) is alive

lifeVars == <<st, params, queues, log, kern, opened, closes, err, ifname, refs, tuns>>

\* The poll loops of the Tun of queue 1.
VARIABLES
    run,       \* the poll call executing ("none" between calls: &mut self)
    at,        \* its place in the loop: "ready" | "sys" | "match", "-" if none
    cur,       \* direction -> the operation outstanding on that side, "-" if none
    status,    \* direction -> "idle" | "pending" | "done" | "cancelled"
    result,    \* direction -> what Poll::Ready carried: "none" | "ok" | errno
    ready,     \* direction -> the reactor's readiness flag
    tick,      \* direction -> number of readiness events delivered
    edge,      \* direction -> the kernel has an event the reactor has not delivered
    guard,     \* the event number the running call's ready guard was taken at
    sysres,    \* result of the running call's last syscall
    lastTick,  \* direction -> event number of its operation's previous attempt
    failed,    \* direction -> an attempt of its operation reported a genuine error
    inflight,  \* direction -> bytes the kernel moved that no result reported yet
    rxq,       \* packets queued in the kernel for reading
    txfree,    \* the kernel accepts a write
    down       \* the reactor has shut down

ioVars == <<run, at, cur, status, result, ready, tick, edge, guard, sysres, lastTick,
            failed, inflight, rxq, txfree, down>>

\* Calls of the Interface's accessors after creation.
VARIABLES
    lastCall,  \* the accessor call made last: its argument, requests and result
    prevFlags, \* the call before it, if that was a successful flags(Some(bits))
    flagsOr,   \* OR of the kernel's first flags and all bits passed to flags
    lastSet,   \* field -> the value a successful set call stored last
    pristine   \* no accessor has set anything since creation

accVars == <<lastCall, prevFlags, flagsOr, lastSet, pristine>>

Handles == 0..MaxQueues

\* ----------------------------------------------------- address conversion
\* Ipv4Addr -> sockaddr: an AF_INET socket address whose sa_data holds the
\* port (two zero bytes), the four octets in network order, and padding.
To_address(a) ==
    [sa_family |-> 2,
     sa_data |-> <<0, 0>> \o a \o <<0, 0, 0, 0, 0, 0, 0, 0>>]

\* sockaddr -> Ipv4Addr: the four octets after the port.
From_address(sa) == SubSeq(sa.sa_data, 3, 6)

\* --------------------------------------------------------------- kernel
\* The interface as the kernel holds it. flags starts at the point-to-point,
\* no-arp, multicast bits of a fresh tun device.
KernInit ==
    [name |-> "", attached |-> {}, devflags |-> 0, mtu |-> 1500,
     owner |-> None, group |-> None, addr |-> To_address(<<0, 0, 0, 0>>),
     netmask |-> To_address(<<0, 0, 0, 0>>), dst |-> To_address(<<0, 0, 0, 0>>),
     brd |-> To_address(<<0, 0, 0, 0>>), persist |-> FALSE, flags |-> 4240]

\* The name the kernel gives an interface: the requested one, or an
\* auto-assigned one when the request carries the empty name.
KernelName(requested) == IF requested = "" THEN "tun0" ELSE requested

\* One request to the kernel: the operation, the handle it targets, the name
\* and value of its ifreq, and whether the code inspects its result.
Call(op, fd, name, val, checked) ==
    [op |-> op, fd |-> fd, name |-> name, val |-> val, checked |-> checked]

\* The execution state threaded through a handler.
ExecInit ==
    [kern |-> KernInit, log |-> <<>>, opened |-> {},
     closes |-> [h \in Handles |-> 0], reqname |-> "", reqflags |-> 0,
     reqval |-> 0, err |-> 0]

\* Whether the kernel serves call c: a request on a handle that is not open
\* fails (EBADF); otherwise it fails exactly when it is the failAt-th request.
Succeeds(s, c, failAt) ==
    /\ Len(s.log) + 1 # failAt
    /\ c.op \notin {"open", "socket"} => (c.fd \in s.opened /\ s.closes[c.fd] = 0)

\* The value a successful "get" request writes into the ifreq.
KernelValue(k, op) ==
    CASE op = "SIOCGIFMTU" -> k.mtu
      [] op = "SIOCGIFADDR" -> k.addr
      [] op = "SIOCGIFNETMASK" -> k.netmask
      [] op = "SIOCGIFDSTADDR" -> k.dst
      [] op = "SIOCGIFBRDADDR" -> k.brd
      [] OTHER -> 0

GetOps == {"SIOCGIFMTU", "SIOCGIFADDR", "SIOCGIFNETMASK", "SIOCGIFDSTADDR",
           "SIOCGIFBRDADDR"}

\* Mutant of Sent: the bits replace the flags read.
Sent_replace(s, c) == c.val

\* Mutant of Sent: the bits are added to the flags read.
Sent_add(s, c) == IF c.op = "SIOCSIFFLAGS" THEN s.reqflags + c.val ELSE c.val

\* The value the request carries to the kernel: SIOCSIFFLAGS sends the flags
\* read into the ifreq OR-ed with the bits (interface.rs:147); every other
\* request sends its value as is.
Sent(s, c) == IF c.op = "SIOCSIFFLAGS" THEN BitOr(s.reqflags, c.val) ELSE c.val

\* The kernel state after a successful call.
KernelEffect(s, c) ==
    CASE c.op = "TUNSETIFF" ->
            [s.kern EXCEPT !.name = KernelName(c.name),
                           !.attached = @ \cup {c.fd}, !.devflags = c.val]
      [] c.op = "SIOCSIFMTU" -> [s.kern EXCEPT !.mtu = c.val]
      [] c.op = "TUNSETOWNER" -> [s.kern EXCEPT !.owner = c.val]
      [] c.op = "TUNSETGROUP" -> [s.kern EXCEPT !.group = c.val]
      [] c.op = "SIOCSIFADDR" -> [s.kern EXCEPT !.addr = c.val]
      [] c.op = "SIOCSIFNETMASK" -> [s.kern EXCEPT !.netmask = c.val]
      [] c.op = "SIOCSIFDSTADDR" -> [s.kern EXCEPT !.dst = c.val]
      [] c.op = "SIOCSIFBRDADDR" -> [s.kern EXCEPT !.brd = c.val]
      [] c.op = "TUNSETPERSIST" -> [s.kern EXCEPT !.persist = TRUE]
      [] c.op = "SIOCSIFFLAGS" -> [s.kern EXCEPT !.flags = Sent(s, c)]
      [] OTHER -> s.kern

\* Issue the calls in order. Each is logged with its result; the first failed
\* call whose result the code inspects (`?`) ends the handler with its error.
RECURSIVE Exec(_, _, _)
Exec(s, calls, failAt) ==
    IF calls = <<>> \/ s.err # 0 THEN s
    ELSE LET c == Head(calls)
             ok == Succeeds(s, c, failAt)
             entry == [op |-> c.op, fd |-> c.fd, name |-> c.name,
                       val |-> Sent(s, c), ok |-> ok]
             s1 == [s EXCEPT
                      !.kern = IF ok THEN KernelEffect(s, c) ELSE @,
                      !.opened = IF ok /\ c.op \in {"open", "socket"}
                                 THEN @ \cup {c.fd} ELSE @,
                      !.reqname = IF ok /\ c.op = "TUNSETIFF"
                                  THEN KernelName(c.name) ELSE @,
                      !.reqflags = IF ok /\ c.op = "SIOCGIFFLAGS"
                                   THEN s.kern.flags
                                   ELSE IF ok /\ c.op = "SIOCSIFFLAGS"
                                   THEN Sent(s, c) ELSE @,
                      !.reqval = IF ok /\ c.op \in GetOps
                                 THEN KernelValue(s.kern, c.op) ELSE @,
                      !.log = Append(@, entry),
                      !.err = IF ~ok /\ c.checked THEN Len(s.log) + 1 ELSE 0]
         IN Exec(s1, Tail(calls), failAt)

\* close(fd): the call is made whatever its result, which is discarded.
Close(s, fd) ==
    [s EXCEPT !.log = Append(@, [op |-> "close", fd |-> fd, name |-> "",
                                 val |-> 0, ok |-> fd \in s.opened]),
              !.closes[fd] = @ + 1]

\* ------------------------------------------------------------ Interface
\* Mutant of AttachFlags: the multi-queue bit is set for a single handle too.
AttachFlags_any_count(n, flags) ==
    IF n >= 1 THEN BitOr(flags, IFF_MULTI_QUEUE) ELSE flags

\* The flags of the attach request: the multi-queue bit is OR-ed in when more
\* than one handle is attached (interface.rs:37-39).
AttachFlags(n, flags) == IF n > 1 THEN BitOr(flags, IFF_MULTI_QUEUE) ELSE flags

\* Mutant of Interface_new: the control socket is opened before the attach
\* requests are issued.
Interface_new_socket_first(fds, name, flags) ==
    << Call("socket", SOCK, "", 0, TRUE) >>
    \o [i \in 1..Len(fds) |->
          Call("TUNSETIFF", fds[i], name, AttachFlags(Len(fds), flags), TRUE)]

\* Interface::new: one attach request per handle, all from the same ifreq,
\* then the control socket.
Interface_new(fds, name, flags) ==
    [i \in 1..Len(fds) |->
        Call("TUNSETIFF", fds[i], name, AttachFlags(Len(fds), flags), TRUE)]
    \o << Call("socket", SOCK, "", 0, TRUE) >>

\* Mutant of Interface_mtu: the result of the request is ignored.
Interface_mtu_ignored(name, mtu) == << Call("SIOCSIFMTU", SOCK, name, mtu, FALSE) >>

\* mtu: Some(mtu) sets it, None asks the kernel for it.
Interface_mtu(name, mtu) ==
    IF mtu # None THEN << Call("SIOCSIFMTU", SOCK, name, mtu, TRUE) >>
    ELSE << Call("SIOCGIFMTU", SOCK, name, 0, TRUE) >>

\* Mutant of Interface_netmask: the netmask is written with the address request.
Interface_netmask_as_address(name, a) ==
    IF a # NoAddr THEN << Call("SIOCSIFADDR", SOCK, name, To_address(a), TRUE) >>
    ELSE << Call("SIOCGIFNETMASK", SOCK, name, 0, TRUE) >>

\* address, netmask, destination, broadcast: Some(a) converts a and sets it,
\* None asks the kernel for the field.
Interface_address(name, a) ==
    IF a # NoAddr THEN << Call("SIOCSIFADDR", SOCK, name, To_address(a), TRUE) >>
    ELSE << Call("SIOCGIFADDR", SOCK, name, 0, TRUE) >>
Interface_netmask(name, a) ==
    IF a # NoAddr THEN << Call("SIOCSIFNETMASK", SOCK, name, To_address(a), TRUE) >>
    ELSE << Call("SIOCGIFNETMASK", SOCK, name, 0, TRUE) >>
Interface_destination(name, a) ==
    IF a # NoAddr THEN << Call("SIOCSIFDSTADDR", SOCK, name, To_address(a), TRUE) >>
    ELSE << Call("SIOCGIFDSTADDR", SOCK, name, 0, TRUE) >>
Interface_broadcast(name, a) ==
    IF a # NoAddr THEN << Call("SIOCSIFBRDADDR", SOCK, name, To_address(a), TRUE) >>
    ELSE << Call("SIOCGIFBRDADDR", SOCK, name, 0, TRUE) >>

\* flags: read the current flags; with Some(bits), OR the bits in and write
\* them back.
Interface_flags(name, bits) ==
    << Call("SIOCGIFFLAGS", SOCK, name, 0, TRUE) >>
    \o (IF bits # None THEN << Call("SIOCSIFFLAGS", SOCK, name, bits, TRUE) >>
        ELSE <<>>)

\* The accessors by name.
Interface_call(f, name, arg) ==
    CASE f = "mtu" -> Interface_mtu(name, arg)
      [] f = "address" -> Interface_address(name, arg)
      [] f = "netmask" -> Interface_netmask(name, arg)
      [] f = "destination" -> Interface_destination(name, arg)
      [] f = "broadcast" -> Interface_broadcast(name, arg)
      [] f = "flags" -> Interface_flags(name, arg)

\* What a successful accessor returns: mtu and flags return the ifreq's field
\* (the value set, or the value the kernel wrote), the address accessors
\* return the caller's value after a set and the converted field after a get.
Interface_result(f, arg, s) ==
    CASE f = "mtu" -> IF arg # None THEN arg ELSE s.reqval
      [] f = "flags" -> s.reqflags
      [] OTHER -> IF arg # NoAddr THEN arg ELSE From_address(s.reqval)

\* owner, group, persist: the same request on every device-node handle.
Interface_owner(owner, fds) ==
    [i \in 1..Len(fds) |-> Call("TUNSETOWNER", fds[i], "", owner, TRUE)]
Interface_group(group, fds) ==
    [i \in 1..Len(fds) |-> Call("TUNSETGROUP", fds[i], "", group, TRUE)]
Interface_persist(fds) ==
    [i \in 1..Len(fds) |-> Call("TUNSETPERSIST", fds[i], "", 1, TRUE)]

\* Mutant of Interface_init: the interface is brought up first.
Interface_init_up_first(name, p, fds) ==
    (IF p.up THEN << Call("SIOCGIFFLAGS", SOCK, name, 0, TRUE),
                     Call("SIOCSIFFLAGS", SOCK, name, BitOr(IFF_UP, IFF_RUNNING), TRUE) >>
     ELSE <<>>)
    \o (IF p.mtu # None THEN << Call("SIOCSIFMTU", SOCK, name, p.mtu, TRUE) >> ELSE <<>>)
    \o (IF p.address # NoAddr
        THEN << Call("SIOCSIFADDR", SOCK, name, To_address(p.address), TRUE) >>
        ELSE <<>>)

\* Mutant of Interface_init: persistence is requested whatever the Params say.
Interface_init_persist_always(name, p, fds) ==
    (IF p.mtu # None THEN Interface_mtu(name, p.mtu) ELSE <<>>)
    \o (IF p.owner # None THEN Interface_owner(p.owner, fds) ELSE <<>>)
    \o (IF p.group # None THEN Interface_group(p.group, fds) ELSE <<>>)
    \o (IF p.address # NoAddr THEN Interface_address(name, p.address) ELSE <<>>)
    \o (IF p.netmask # NoAddr THEN Interface_netmask(name, p.netmask) ELSE <<>>)
    \o (IF p.destination # NoAddr
        THEN Interface_destination(name, p.destination) ELSE <<>>)
    \o (IF p.broadcast # NoAddr
        THEN Interface_broadcast(name, p.broadcast) ELSE <<>>)
    \o Interface_persist(fds)
    \o (IF p.up THEN Interface_flags(name, BitOr(IFF_UP, IFF_RUNNING)) ELSE <<>>)

\* Mutant of Interface_init: the address is not configured.
Interface_init_no_address(name, p, fds) ==
    (IF p.mtu # None THEN Interface_mtu(name, p.mtu) ELSE <<>>)
    \o (IF p.owner # None THEN Interface_owner(p.owner, fds) ELSE <<>>)
    \o (IF p.group # None THEN Interface_group(p.group, fds) ELSE <<>>)
    \o (IF p.netmask # NoAddr THEN Interface_netmask(name, p.netmask) ELSE <<>>)
    \o (IF p.destination # NoAddr
        THEN Interface_destination(name, p.destination) ELSE <<>>)
    \o (IF p.broadcast # NoAddr
        THEN Interface_broadcast(name, p.broadcast) ELSE <<>>)
    \o (IF p.persist THEN Interface_persist(fds) ELSE <<>>)
    \o (IF p.up THEN Interface_flags(name, BitOr(IFF_UP, IFF_RUNNING)) ELSE <<>>)

\* Interface::init: the present fields, in the order of the code.
Interface_init(name, p, fds) ==
    (IF p.mtu # None THEN Interface_mtu(name, p.mtu) ELSE <<>>)
    \o (IF p.owner # None THEN Interface_owner(p.owner, fds) ELSE <<>>)
    \o (IF p.group # None THEN Interface_group(p.group, fds) ELSE <<>>)
    \o (IF p.address # NoAddr THEN Interface_address(name, p.address) ELSE <<>>)
    \o (IF p.netmask # NoAddr THEN Interface_netmask(name, p.netmask) ELSE <<>>)
    \o (IF p.destination # NoAddr
        THEN Interface_destination(name, p.destination) ELSE <<>>)
    \o (IF p.broadcast # NoAddr
        THEN Interface_broadcast(name, p.broadcast) ELSE <<>>)
    \o (IF p.persist THEN Interface_persist(fds) ELSE <<>>)
    \o (IF p.up THEN Interface_flags(name, BitOr(IFF_UP, IFF_RUNNING)) ELSE <<>>)

\* impl Drop for Interface: close the control socket, result discarded.
Interface_drop(s) == Close(s, SOCK)

\* Mutant of TunIo_drop: the handle is forgotten, not closed.
TunIo_drop_forget(s, fd) == s

\* impl Drop for TunIo: close the device-node handle.
TunIo_drop(s, fd) == Close(s, fd)

\* Mutant of LastRef: every adapter closes the shared socket.
LastRef_every(n) == TRUE

\* Dropping one strong reference of the Arc<Interface>: the Interface itself
\* is dropped when that reference was the last one.
LastRef(n) == n = 1
Arc_drop(s, n) == IF LastRef(n) THEN Interface_drop(s) ELSE s

\* ------------------------------------------------------------------ Tun
\* The result of a handler: the execution state, the resolved name of the
\* Interface it holds ("?" when none), and the handler's outcome.
Result(s, name, ok) == [s |-> s, name |-> name, ok |-> ok]

\* Mutant of Tun_allocate: the Interface keeps the requested name.
Tun_allocate_requested_name(p, n, failAt) ==
    LET fds == [i \in 1..n |-> i]
        s1 == Exec(ExecInit, [i \in 1..n |-> Call("open", i, "", 0, FALSE)], failAt)
        s2 == Exec(s1, Interface_new(fds, p.name, p.flags), failAt)
    IN IF s2.err # 0 THEN Result(s2, "?", FALSE)
       ELSE LET s3 == Exec(s2, Interface_init(p.name, p, fds), failAt)
            IN IF s3.err # 0 THEN Result(Interface_drop(s3), "?", FALSE)
               ELSE Result(s3, p.name, TRUE)

\* Tun::allocate: open `n` device nodes (the results are not inspected and
\* the handles are plain integers), create the Interface over them, then
\* configure it. An Interface that fails to configure is dropped.
Tun_allocate(p, n, failAt) ==
    LET fds == [i \in 1..n |-> i]
        s1 == Exec(ExecInit, [i \in 1..n |-> Call("open", i, "", 0, FALSE)], failAt)
        s2 == Exec(s1, Interface_new(fds, p.name, p.flags), failAt)
    IN IF s2.err # 0 THEN Result(s2, "?", FALSE)
       ELSE LET s3 == Exec(s2, Interface_init(s2.reqname, p, fds), failAt)
            IN IF s3.err # 0 THEN Result(Interface_drop(s3), "?", FALSE)
               ELSE Result(s3, s2.reqname, TRUE)

\* AsyncFd::new over the TunIo of handle fd: registration with the reactor.
\* On failure the TunIo is dropped with the error.
AsyncFd_new(s, fd, failAt) ==
    LET s1 == Exec(s, << Call("register", fd, "", 0, TRUE) >>, failAt)
    IN IF s1.err # 0 THEN TunIo_drop(s1, fd) ELSE s1

\* Tun::new: allocate one queue, put the Interface in an Arc, wrap handle
\* files()[0]. When the registration fails the Arc is dropped on the way out.
Tun_new(p, failAt) ==
    LET a == Tun_allocate(p, 1, failAt)
    IN IF ~a.ok THEN a
       ELSE LET s1 == AsyncFd_new(a.s, 1, failAt)
            IN IF s1.err # 0 THEN Result(Arc_drop(s1, 1), "?", FALSE)
               ELSE Result(s1, a.name, TRUE)

\* The multi-queue constructor: allocate n queues, then wrap every handle in
\* its own Tun, all sharing the Arc<Interface>. When a registration fails,
\* every Tun built so far, every remaining raw channel and the Interface are
\* destroyed, each closing its handle.
RECURSIVE WrapAll(_, _, _, _)
WrapAll(s, i, n, failAt) ==
    IF i > n \/ s.err # 0 THEN s ELSE WrapAll(AsyncFd_new(s, i, failAt), i + 1, n, failAt)

RECURSIVE CloseAll(_, _)
CloseAll(s, fds) ==
    IF fds = {} THEN s
    ELSE LET fd == CHOOSE x \in fds : \A y \in fds : x <= y
         IN CloseAll(TunIo_drop(s, fd), fds \ {fd})

Tun_new_mq(p, n, failAt) ==
    LET a == Tun_allocate(p, n, failAt)
    IN IF ~a.ok THEN a
       ELSE LET s1 == WrapAll(a.s, 1, n, failAt)
            IN IF s1.err # 0
               THEN Result(Interface_drop(
                        CloseAll(s1, {i \in 1..n : s1.closes[i] = 0})), "?", FALSE)
               ELSE Result(s1, a.name, TRUE)

\* --------------------------------------------------------------- actions
\* The variables as an execution state.
Now ==
    [kern |-> kern, log |-> log, opened |-> opened, closes |-> closes,
     reqname |-> "", reqflags |-> 0, reqval |-> 0, err |-> 0]

Install(p, n, r) ==
    /\ st' = IF r.ok THEN "live" ELSE "failed"
    /\ params' = p
    /\ queues' = n
    /\ log' = r.s.log
    /\ kern' = r.s.kern
    /\ opened' = r.s.opened
    /\ closes' = r.s.closes
    /\ err' = r.s.err
    /\ ifname' = r.name
    /\ refs' = IF r.ok THEN n ELSE 0
    /\ tuns' = IF r.ok THEN 1..n ELSE {}
    /\ UNCHANGED <<ioVars, accVars>>

\* The builder calls Tun::new with some Params; the kernel fails at most one
\* of the requests the call issues.
New ==
    /\ st = "start"
    /\ \E p \in ParamSet :
         \E failAt \in 0..Len(Tun_new(p, 0).s.log) :
            Install(p, 1, Tun_new(p, failAt))

\* The builder asks for n > 1 queues.
NewMq ==
    /\ st = "start"
    /\ \E p \in ParamSet, n \in 2..MaxQueues :
         \E failAt \in 0..Len(Tun_new_mq(p, n, 0).s.log) :
            Install(p, n, Tun_new_mq(p, n, failAt))

\* Dropping the Tun of queue q: its fields in declaration order, the Arc
\* first, then the AsyncFd with its TunIo.
Tun_drop(q) ==
    /\ st = "live"
    /\ q \in tuns
    /\ LET s == TunIo_drop(Arc_drop(Now, refs), q)
       IN /\ log' = s.log
          /\ closes' = s.closes
    /\ refs' = refs - 1
    /\ tuns' = tuns \ {q}
    /\ st' = IF tuns' = {} THEN "dropped" ELSE "live"
    /\ UNCHANGED <<params, queues, kern, opened, err, ifname>>
    /\ UNCHANGED <<ioVars, accVars>>

vars == <<lifeVars, ioVars, accVars>>

Ops == {"read", "write", "flush", "shutdown"}
Dirs == {"R", "W"}

IoInit ==
    /\ run = "none"
    /\ at = "-"
    /\ cur = [d \in Dirs |-> "-"]
    /\ status = [d \in Dirs |-> "idle"]
    /\ result = [d \in Dirs |-> "none"]
    /\ ready = [d \in Dirs |-> FALSE]
    /\ tick = [d \in Dirs |-> 0]
    /\ edge = [d \in Dirs |-> d = "W"]
    /\ guard = 0
    /\ sysres = "none"
    /\ lastTick = [d \in Dirs |-> 0]
    /\ failed = [d \in Dirs |-> FALSE]
    /\ inflight = [d \in Dirs |-> 0]
    /\ rxq = 0
    /\ txfree = TRUE
    /\ down = FALSE

NoCall == [op |-> "-", arg |-> None, ok |-> FALSE, ret |-> 0, reqs |-> <<>>,
           before |-> 0]
NoFlagsCall == [arg |-> None, ret |-> 0]
AccFields == {"mtu", "address", "netmask", "destination", "broadcast"}
Absent(f) == IF f \in {"mtu", "flags"} THEN None ELSE NoAddr

\* No accessor has been called.
AccInit ==
    /\ lastCall = NoCall
    /\ prevFlags = NoFlagsCall
    /\ flagsOr = KernInit.flags
    /\ lastSet = [f \in AccFields |-> Absent(f)]
    /\ pristine = TRUE

Init ==
    /\ st = "start"
    /\ params = NoParams
    /\ queues = 0
    /\ log = <<>>
    /\ kern = KernInit
    /\ opened = {}
    /\ closes = [h \in Handles |-> 0]
    /\ err = 0
    /\ ifname = "?"
    /\ refs = 0
    /\ tuns = {}
    /\ IoInit
    /\ AccInit

Next ==
    \/ New
    \/ NewMq
    \/ \E q \in 1..MaxQueues : Tun_drop(q)

Spec == Init /\ [][Next]_vars

\* ------------------------------------------------------- the poll loops
\* Mutant of Dir: every operation waits for read readiness.
Dir_read_ready(o) == "R"

\* The readiness an operation polls and clears: poll_read the read side,
\* poll_write and poll_flush the write side.
Dir(o) == IF o = "read" THEN "R" ELSE "W"

\* TunIo::recv, TunIo::send, TunIo::flush: a negative return of the libc call
\* becomes the last OS error, the would-block errno included.
TunIo_result(ret, errno) == IF ret < 0 THEN errno ELSE "ok"

\* What the kernel can answer to the syscall of operation o: a packet when one
\* is queued (read), acceptance when there is room (write), EAGAIN otherwise,
\* or a genuine error.
KernelAnswers(o) ==
    {[ret |-> -1, errno |-> "EIO"]}
    \cup (CASE o = "read" ->
                 IF rxq > 0 THEN {[ret |-> 1, errno |-> "-"]}
                 ELSE {[ret |-> -1, errno |-> "EAGAIN"]}
            [] o = "write" ->
                 IF txfree THEN {[ret |-> 1, errno |-> "-"]}
                 ELSE {[ret |-> -1, errno |-> "EAGAIN"]}
            [] o \in {"flush", "shutdown"} ->
                 IF txfree THEN {[ret |-> 0, errno |-> "-"]}
                 ELSE {[ret |-> 0, errno |-> "-"], [ret |-> -1, errno |-> "EAGAIN"]})

\* try_io hands the closure's result on, except a would-block error, for which
\* it clears the readiness the guard observed and reports Err(TryIoError).
WouldBlock(r) == r = "EAGAIN"

\* Mutant of Poll_read_match: a successful read goes round the loop again.
Poll_read_match_keep(r) == IF r = "ok" \/ r = "EAGAIN" THEN "continue" ELSE "return"

\* The match of poll_read: Ok(Ok(n)) and Ok(Err(e)) return Poll::Ready,
\* Err(_) goes round the loop.
Poll_read_match(r) ==
    CASE r = "ok" -> "return"
      [] WouldBlock(r) -> "continue"
      [] OTHER -> "return"

\* Mutant of Poll_write_match: every result of the closure is returned.
Poll_write_match_surface(r) == "return"

\* The match of poll_write: Ok(result) returns it, Err(_) goes round the loop.
Poll_write_match(r) == IF WouldBlock(r) THEN "continue" ELSE "return"

\* The match of poll_flush, the same.
Poll_flush_match(r) == IF WouldBlock(r) THEN "continue" ELSE "return"

\* Mutant of Poll_shutdown_match: shutdown returns whatever the closure gave.
Poll_shutdown_match_surface(r) == "return"

\* poll_shutdown calls poll_flush and returns what it returns.
Poll_shutdown_match(r) == Poll_flush_match(r)

Match(o, r) ==
    CASE o = "read" -> Poll_read_match(r)
      [] o = "write" -> Poll_write_match(r)
      [] o = "flush" -> Poll_flush_match(r)
      [] o = "shutdown" -> Poll_shutdown_match(r)

\* Mutant of LoopTop: the loop retries the syscall without polling readiness.
LoopTop_busy == "sys"

\* Where the loop goes on `continue`: back to the readiness poll at its top.
LoopTop == "ready"

\* The caller (or a wake-up of its task) calls poll_read, poll_write,
\* poll_flush or poll_shutdown; the calls on one Tun exclude each other (Pin<&mut Self>), and
\* each side has at most one operation outstanding.
Poll(o) ==
    /\ run = "none"
    /\ \/ status[Dir(o)] \in {"idle", "cancelled"}
       \/ status[Dir(o)] = "pending" /\ cur[Dir(o)] = o
    /\ run' = o
    /\ at' = LoopTop
    /\ status' = [status EXCEPT ![Dir(o)] = "pending"]
    /\ cur' = [cur EXCEPT ![Dir(o)] = o]
    /\ UNCHANGED <<result, ready, tick, edge, guard, sysres, lastTick, failed,
                   inflight, rxq, txfree, down>>
    /\ UNCHANGED <<lifeVars, accVars>>

\* ready!(poll_read_ready_mut(cx))? / ready!(poll_write_ready_mut(cx))?:
\* an error of the reactor is returned, no readiness returns Poll::Pending,
\* readiness yields the guard.
PollReady(o) ==
    /\ run = o /\ at = "ready"
    /\ IF down
       THEN /\ status' = [status EXCEPT ![Dir(o)] = "done"]
            /\ result' = [result EXCEPT ![Dir(o)] = "gone"]
            /\ run' = "none" /\ at' = "-"
            /\ UNCHANGED guard
       ELSE IF ready[Dir(o)]
       THEN /\ guard' = tick[Dir(o)]
            /\ at' = "sys"
            /\ UNCHANGED <<status, result, run>>
       ELSE /\ run' = "none" /\ at' = "-"
            /\ UNCHANGED <<status, result, guard>>
    /\ UNCHANGED <<cur, ready, tick, edge, sysres, lastTick, failed, inflight, rxq,
                   txfree, down>>
    /\ UNCHANGED <<lifeVars, accVars>>

\* The closure of try_io: one read, write or fsync on the handle.
Syscall(o) ==
    /\ run = o /\ at = "sys"
    /\ \E k \in KernelAnswers(o) :
          LET r == TunIo_result(k.ret, k.errno)
          IN /\ sysres' = r
             /\ failed' = [failed EXCEPT
                             ![Dir(o)] = @ \/ (r # "ok" /\ ~WouldBlock(r))]
             /\ inflight' = [inflight EXCEPT
                               ![Dir(o)] = @ + (IF r = "ok" THEN k.ret ELSE 0)]
             /\ rxq' = IF o = "read" /\ r = "ok" THEN rxq - 1 ELSE rxq
    /\ lastTick' = [lastTick EXCEPT ![Dir(o)] = guard]
    /\ at' = "match"
    /\ UNCHANGED <<run, cur, status, result, ready, tick, edge, guard, txfree, down>>
    /\ UNCHANGED <<lifeVars, accVars>>

\* Mutant of ClearReadiness: the readiness is cleared whatever has arrived.
ClearReadiness_stale(d) == [ready EXCEPT ![d] = FALSE]

\* The guard clears the readiness it observed: the flag of its direction,
\* unless an event newer than the guard has been delivered.
ClearReadiness(d) == IF tick[d] = guard THEN [ready EXCEPT ![d] = FALSE] ELSE ready

\* The rest of try_io and the match on its result: a would-block clears the
\* readiness the guard saw (a newer event is kept); then the call returns
\* Poll::Ready with the result or goes round the loop.
TryIoMatch(o) ==
    /\ run = o /\ at = "match"
    /\ ready' = IF WouldBlock(sysres) THEN ClearReadiness(Dir(o)) ELSE ready
    /\ IF Match(o, sysres) = "return"
       THEN /\ status' = [status EXCEPT ![Dir(o)] = "done"]
            /\ result' = [result EXCEPT ![Dir(o)] = sysres]
            /\ inflight' = [inflight EXCEPT ![Dir(o)] = 0]
            /\ run' = "none" /\ at' = "-"
            /\ guard' = 0
       ELSE /\ at' = LoopTop
            /\ UNCHANGED <<status, result, inflight, run, guard>>
    /\ sysres' = "none"
    /\ UNCHANGED <<cur, tick, edge, lastTick, failed, rxq, txfree, down>>
    /\ UNCHANGED <<lifeVars, accVars>>

\* The caller takes the result of a completed operation.
Consume(d) ==
    /\ run = "none" /\ status[d] = "done"
    /\ status' = [status EXCEPT ![d] = "idle"]
    /\ result' = [result EXCEPT ![d] = "none"]
    /\ cur' = [cur EXCEPT ![d] = "-"]
    /\ lastTick' = [lastTick EXCEPT ![d] = 0]
    /\ failed' = [failed EXCEPT ![d] = FALSE]
    /\ UNCHANGED <<run, at, ready, tick, edge, guard, sysres, inflight, rxq, txfree, down>>
    /\ UNCHANGED <<lifeVars, accVars>>

\* The caller abandons a pending operation (drops its future).
Cancel(d) ==
    /\ run = "none" /\ status[d] = "pending"
    /\ status' = [status EXCEPT ![d] = "cancelled"]
    /\ cur' = [cur EXCEPT ![d] = "-"]
    /\ lastTick' = [lastTick EXCEPT ![d] = 0]
    /\ failed' = [failed EXCEPT ![d] = FALSE]
    /\ UNCHANGED <<run, at, result, ready, tick, edge, guard, sysres, inflight, rxq,
                   txfree, down>>
    /\ UNCHANGED <<lifeVars, accVars>>

\* The kernel: a packet arrives for the interface.
PacketArrives ==
    /\ rxq < MaxPkts
    /\ rxq' = rxq + 1
    /\ edge' = [edge EXCEPT !["R"] = TRUE]
    /\ UNCHANGED <<run, at, cur, status, result, ready, tick, guard, sysres, lastTick,
                   failed, inflight, txfree, down>>
    /\ UNCHANGED <<lifeVars, accVars>>

\* A racing reader of the same queue takes a packet.
PacketTaken ==
    /\ rxq > 0
    /\ rxq' = rxq - 1
    /\ UNCHANGED <<run, at, cur, status, result, ready, tick, edge, guard, sysres,
                   lastTick, failed, inflight, txfree, down>>
    /\ UNCHANGED <<lifeVars, accVars>>

\* The transmit side fills up, and drains again.
TxChange ==
    /\ txfree' = ~txfree
    /\ edge' = [edge EXCEPT !["W"] = @ \/ txfree']
    /\ UNCHANGED <<run, at, cur, status, result, ready, tick, guard, sysres, lastTick,
                   failed, inflight, rxq, down>>
    /\ UNCHANGED <<lifeVars, accVars>>

\* The reactor delivers a readiness event of direction d.
ReactorEvent(d) ==
    /\ edge[d] /\ ~down
    /\ tick[d] < MaxTick
    /\ ready' = [ready EXCEPT ![d] = TRUE]
    /\ tick' = [tick EXCEPT ![d] = @ + 1]
    /\ edge' = [edge EXCEPT ![d] = FALSE]
    /\ UNCHANGED <<run, at, cur, status, result, guard, sysres, lastTick, failed,
                   inflight, rxq, txfree, down>>
    /\ UNCHANGED <<lifeVars, accVars>>

\* The runtime shuts the reactor down.
ReactorShutdown ==
    /\ ~down
    /\ down' = TRUE
    /\ UNCHANGED <<run, at, cur, status, result, ready, tick, edge, guard, sysres,
                   lastTick, failed, inflight, rxq, txfree>>
    /\ UNCHANGED <<lifeVars, accVars>>

\* A Tun created by Tun::new with the parameters of examples/read.rs.
ExampleParams ==
    [name |-> "", flags |-> BitOr(IFF_TUN, IFF_NO_PI), mtu |-> 1350,
     owner |-> None, group |-> None, address |-> <<10, 21, 22, 1>>,
     netmask |-> <<255, 255, 255, 0>>, destination |-> <<10, 22, 23, 1>>,
     broadcast |-> <<255, 255, 255, 255>>, persist |-> FALSE, up |-> TRUE]

InitIO ==
    /\ LET r == Tun_new(ExampleParams, 0)
       IN /\ st = "live"
          /\ params = ExampleParams
          /\ queues = 1
          /\ log = r.s.log
          /\ kern = r.s.kern
          /\ opened = r.s.opened
          /\ closes = r.s.closes
          /\ err = 0
          /\ ifname = r.name
          /\ refs = 1
          /\ tuns = {1}
    /\ IoInit
    /\ AccInit

NextIO ==
    \/ \E o \in Ops : Poll(o)
    \/ \E o \in Ops : PollReady(o)
    \/ \E o \in Ops : Syscall(o)
    \/ \E o \in Ops : TryIoMatch(o)
    \/ \E d \in Dirs : Consume(d)
    \/ \E d \in Dirs : Cancel(d)
    \/ PacketArrives
    \/ PacketTaken
    \/ TxChange
    \/ \E d \in Dirs : ReactorEvent(d)
    \/ ReactorShutdown

SpecIO == InitIO /\ [][NextIO]_vars

\* ------------------------------------------------------------ accessors
\* The Params the accessor calls are checked after: the example's, and a
\* named device with only a netmask.
AccParams ==
    {ExampleParams, [NoParams EXCEPT !.name = "tun7", !.netmask = <<255, 255, 255, 0>>]}

Addrs == {<<192, 168, 0, 254>>}
FlagBits == {BitOr(IFF_UP, IFF_RUNNING), 256}
Args(f) ==
    CASE f = "mtu" -> {None, 1400}
      [] f = "flags" -> {None} \cup FlagBits
      [] OTHER -> {NoAddr} \cup Addrs

\* A device created by a successful Tun::new; init's calls count as the
\* first accessor calls.
InitAcc ==
    /\ \E p \in AccParams :
         LET r == Tun_new(p, 0)
         IN /\ st = "live"
            /\ params = p
            /\ queues = 1
            /\ log = r.s.log
            /\ kern = r.s.kern
            /\ opened = r.s.opened
            /\ closes = r.s.closes
            /\ err = 0
            /\ ifname = r.name
            /\ refs = 1
            /\ tuns = {1}
            /\ flagsOr = IF p.up THEN BitOr(KernInit.flags, BitOr(IFF_UP, IFF_RUNNING))
                         ELSE KernInit.flags
            /\ lastSet = [f \in AccFields |->
                            CASE f = "mtu" -> p.mtu
                              [] f = "address" -> p.address
                              [] f = "netmask" -> p.netmask
                              [] f = "destination" -> p.destination
                              [] f = "broadcast" -> p.broadcast]
    /\ lastCall = NoCall
    /\ prevFlags = NoFlagsCall
    /\ pristine = TRUE
    /\ IoInit

\* One call of an accessor of the live Interface, with Some(arg) or None; the
\* kernel fails at most one of its requests (failAt counts them from 1).
Accessor(f, arg, failAt) ==
    /\ st = "live"
    /\ LET s == Exec([Now EXCEPT !.log = <<>>], Interface_call(f, ifname, arg), failAt)
           ok == s.err = 0
           set == ok /\ arg # Absent(f)
       IN /\ kern' = s.kern
          /\ lastCall' = [op |-> f, arg |-> arg, ok |-> ok,
                          ret |-> IF ok THEN Interface_result(f, arg, s) ELSE 0,
                          reqs |-> s.log, before |-> kern.flags]
          /\ prevFlags' = IF lastCall.op = "flags" /\ lastCall.arg # None /\ lastCall.ok
                          THEN [arg |-> lastCall.arg, ret |-> lastCall.ret]
                          ELSE NoFlagsCall
          /\ flagsOr' = IF f = "flags" /\ set THEN BitOr(flagsOr, arg) ELSE flagsOr
          /\ lastSet' = IF f # "flags" /\ set THEN [lastSet EXCEPT ![f] = arg]
                        ELSE lastSet
          /\ pristine' = (pristine /\ ~set)
    /\ UNCHANGED <<st, params, queues, log, opened, closes, err, ifname, refs, tuns>>
    /\ UNCHANGED ioVars

NextAcc ==
    \/ \E f \in AccFields \cup {"flags"} :
         \E arg \in Args(f) :
            \E failAt \in 0..Len(Interface_call(f, ifname, arg)) :
               Accessor(f, arg, failAt)
    \/ Tun_drop(1)

SpecAcc == InitAcc /\ [][NextAcc]_vars

\* ---------------------------------------------------------------- claims
LogIdx == 1..Len(log)

\* C3: once Tun::new has returned and every owning object is destroyed, every
\* handle that was opened has been closed exactly once, and no other handle
\* has been closed. (The code leaks the device-node handles when Tun::allocate
\* fails.)
C3_ReleasedExactlyOnce ==
    st \in {"failed", "dropped"} =>
        \A h \in Handles : closes[h] = IF h \in opened THEN 1 ELSE 0

\* C4: after a successful single-queue allocation and the drop of its Tun,
\* close was called once on the device-node handle and once on the control
\* socket, and on nothing else.
C4_TeardownClosesOnce ==
    (st = "dropped" /\ queues = 1) =>
        /\ closes[1] = 1
        /\ closes[SOCK] = 1
        /\ Cardinality({i \in LogIdx : log[i].op = "close"}) = 2

C4_Witness == st = "dropped" /\ queues = 1 /\ closes[SOCK] = 1

\* C5: with N adapters sharing the Interface, the control socket is not
\* closed while an adapter is alive, and has been closed exactly once when
\* the last one is gone.
C5_SocketClosedByLastRef ==
    /\ (st = "live" /\ tuns # {}) => closes[SOCK] = 0
    /\ st = "dropped" => closes[SOCK] = 1
    /\ st = "live" => refs = Cardinality(tuns)

C5_Witness ==
    /\ st = "live" /\ queues > 1
    /\ tuns # {} /\ Cardinality(tuns) < queues
    /\ closes[SOCK] = 0

\* C7: every attach request carries the supplied flags with the multi-queue
\* bit OR-ed in exactly when more than one handle is attached, the same value
\* for every handle.
C7_MultiQueueBit ==
    \A i \in LogIdx :
        log[i].op = "TUNSETIFF" =>
            /\ log[i].val = IF queues > 1
                            THEN BitOr(params.flags, IFF_MULTI_QUEUE)
                            ELSE params.flags
            /\ HasBits(log[i].val, IFF_MULTI_QUEUE) <=> queues > 1

C7_Witness ==
    /\ queues > 1
    /\ Cardinality({i \in LogIdx : log[i].op = "TUNSETIFF" /\ log[i].ok}) = queues
    /\ \A i \in LogIdx : log[i].op = "TUNSETIFF" =>
                            HasBits(log[i].val, IFF_MULTI_QUEUE)

\* The position of each configuration request in the order the
\* specification states.
ConfigRank(op) ==
    CASE op = "SIOCSIFMTU" -> 1
      [] op = "TUNSETOWNER" -> 2
      [] op = "TUNSETGROUP" -> 3
      [] op = "SIOCSIFADDR" -> 4
      [] op = "SIOCSIFNETMASK" -> 5
      [] op = "SIOCSIFDSTADDR" -> 6
      [] op = "SIOCSIFBRDADDR" -> 7
      [] op = "TUNSETPERSIST" -> 8
      [] op = "SIOCGIFFLAGS" -> 9
      [] op = "SIOCSIFFLAGS" -> 9
      [] OTHER -> 0

ConfigIdx == {i \in LogIdx : ConfigRank(log[i].op) > 0}

\* C8: the configuration requests are issued in the order MTU, owner, group,
\* address, netmask, destination, broadcast, persist, bring-up; the set-flags
\* request comes after every other configuration request.
C8_BringUpLast ==
    /\ \A i, j \in ConfigIdx :
          i < j => ConfigRank(log[i].op) <= ConfigRank(log[j].op)
    /\ \A j \in LogIdx : log[j].op = "SIOCSIFFLAGS" =>
          \A i \in ConfigIdx : i <= j

C8_Witness ==
    /\ st = "live"
    /\ \E i, j \in LogIdx :
          /\ log[i].op = "SIOCSIFADDR" /\ log[i].ok
          /\ log[j].op = "SIOCSIFFLAGS" /\ log[j].ok
          /\ HasBits(kern.flags, BitOr(IFF_UP, IFF_RUNNING))
          /\ i < j

\* C9: a failed configuration request ends Tun::new with the error of that
\* request; nothing but destructor closes follows it, and every field whose
\* step precedes it holds the configured value in the kernel.
C9_NotTransactional ==
    \A i \in ConfigIdx :
        ~log[i].ok =>
            /\ err = i
            /\ st = "failed"
            /\ \A j \in LogIdx : j < i => log[j].ok
            /\ \A j \in LogIdx : j > i => log[j].op = "close"
            /\ LET r == ConfigRank(log[i].op)
               IN /\ (r > 1 /\ params.mtu # None) => kern.mtu = params.mtu
                  /\ (r > 2 /\ params.owner # None) => kern.owner = params.owner
                  /\ (r > 3 /\ params.group # None) => kern.group = params.group
                  /\ (r > 4 /\ params.address # NoAddr) =>
                        kern.addr = To_address(params.address)
                  /\ (r > 5 /\ params.netmask # NoAddr) =>
                        kern.netmask = To_address(params.netmask)
                  /\ (r > 6 /\ params.destination # NoAddr) =>
                        kern.dst = To_address(params.destination)
                  /\ (r > 7 /\ params.broadcast # NoAddr) =>
                        kern.brd = To_address(params.broadcast)
                  /\ (r > 8 /\ params.persist) => kern.persist

C9_Witness ==
    /\ st = "failed"
    /\ err \in ConfigIdx
    /\ log[err].op = "SIOCSIFNETMASK"
    /\ params.mtu # None /\ kern.mtu = params.mtu
    /\ params.address # NoAddr /\ kern.addr = To_address(params.address)
    /\ kern.netmask # To_address(params.netmask)

\* C10: the first failing attach request ends creation: its error is
\* returned, no request follows it, no control socket is opened and no
\* Interface exists; a successful creation opens exactly one control socket.
C10_AttachFailureStops ==
    /\ \A i \in LogIdx :
          (log[i].op = "TUNSETIFF" /\ ~log[i].ok) =>
              /\ err = i
              /\ st = "failed"
              /\ Len(log) = i
              /\ \A j \in LogIdx : log[j].op # "socket"
              /\ SOCK \notin opened
              /\ ifname = "?" /\ refs = 0 /\ tuns = {}
    /\ st \in {"live", "dropped"} =>
          Cardinality({i \in LogIdx : log[i].op = "socket"}) = 1

C10_Witness ==
    /\ st = "failed" /\ queues > 1
    /\ err > 0 /\ log[err].op = "TUNSETIFF" /\ log[err].fd = 1
    /\ 1 \in opened /\ 2 \in opened
    /\ Len(log) = err

\* C1: a would-block result is never what a poll call returns; an attempt
\* that reports any other error completes the operation with that error, so
\* no further attempt of it is made.
C1_WouldBlockNeverSurfaces ==
    \A d \in Dirs :
        /\ result[d] # "EAGAIN"
        /\ status[d] = "done" <=> result[d] # "none"
        /\ failed[d] =>
              \/ run # "none" /\ Dir(run) = d /\ at = "match" /\ sysres = "EIO"
              \/ status[d] = "done" /\ result[d] = "EIO" /\ run # cur[d]

C1_Witness ==
    /\ run = "none"
    /\ status["R"] = "pending" /\ lastTick["R"] > 0 /\ ~ready["R"]
    /\ status["W"] = "done" /\ failed["W"] /\ result["W"] = "EIO"

\* C2: the syscall is attempted only under a guard the readiness poll handed
\* out, and each attempt of one operation is made under a readiness event
\* newer than the one its previous attempt was made under.
C2_NoBusyPoll ==
    (run # "none" /\ at = "sys") =>
        /\ guard >= 1
        /\ guard <= tick[Dir(run)]
        /\ guard > lastTick[Dir(run)]

C2_Witness ==
    /\ run = "read" /\ at = "sys"
    /\ lastTick["R"] > 0
    /\ guard > lastTick["R"]

\* C6: between poll calls, where an operation can be abandoned, the adapter
\* holds no bytes the kernel moved and no result reported; a would-block
\* attempt moved none.
C6_NothingHeldAcrossSuspension ==
    /\ run = "none" => \A d \in Dirs : inflight[d] = 0
    /\ (run # "none" /\ at = "match" /\ sysres # "ok") => inflight[Dir(run)] = 0
    /\ \A d \in Dirs : inflight[d] <= 1

C6_Witness ==
    /\ run = "none"
    /\ status["R"] = "cancelled" /\ rxq > 0 /\ tick["R"] > 0
    /\ status["W"] = "done" /\ result["W"] = "ok" /\ cur["W"] = "write"

\* C11: flags(bits) only adds bits. A successful flags(Some(F)) issues a read
\* and then a write carrying exactly (flags read) OR F, returns that value
\* and leaves it in the kernel, so every bit set before is still set; and the
\* kernel's flags are always the OR of their first value and all bit sets
\* passed to successful flags calls.
C11_FlagsOnlyAdd ==
    /\ kern.flags = flagsOr
    /\ (lastCall.op = "flags" /\ lastCall.ok /\ lastCall.arg # None) =>
          /\ Len(lastCall.reqs) = 2
          /\ lastCall.reqs[1].op = "SIOCGIFFLAGS"
          /\ lastCall.reqs[2].op = "SIOCSIFFLAGS"
          /\ lastCall.reqs[2].val = BitOr(lastCall.before, lastCall.arg)
          /\ lastCall.ret = BitOr(lastCall.before, lastCall.arg)
          /\ kern.flags = lastCall.ret
          /\ HasBits(kern.flags, lastCall.before)

\* A flags call added new bits to flags that an earlier call had changed.
C11_Witness ==
    /\ lastCall.op = "flags" /\ lastCall.ok /\ lastCall.arg = 256
    /\ ~params.up
    /\ HasBits(lastCall.before, IFF_UP)
    /\ ~HasBits(lastCall.before, 256)

\* C12: flags(F) is idempotent: a successful flags(Some(F)) directly after a
\* successful flags(Some(F)) returns the same value and leaves the kernel's
\* flags as the first call left them.
C12_FlagsIdempotent ==
    (lastCall.op = "flags" /\ lastCall.ok /\ lastCall.arg # None
        /\ prevFlags.arg = lastCall.arg) =>
        /\ lastCall.ret = prevFlags.ret
        /\ kern.flags = lastCall.before

\* flags(F) was applied twice in a row to flags that lacked F.
C12_Witness ==
    /\ lastCall.op = "flags" /\ lastCall.ok /\ lastCall.arg = 256
    /\ prevFlags.arg = 256
    /\ ~HasBits(KernInit.flags, 256)
    /\ HasBits(kern.flags, 256)

AddrFields == {"address", "netmask", "destination", "broadcast"}
KernField(f) ==
    CASE f = "address" -> kern.addr
      [] f = "netmask" -> kern.netmask
      [] f = "destination" -> kern.dst
      [] f = "broadcast" -> kern.brd

\* C13: set-then-get round trip of the address fields. A successful set of a
\* field returns the value given; the kernel keeps every field's last set
\* value in that field's own slot whatever other fields were set since; and a
\* successful get returns the value set last.
C13_AddressRoundTrip ==
    /\ \A f \in AddrFields :
          lastSet[f] # NoAddr => From_address(KernField(f)) = lastSet[f]
    /\ (lastCall.op \in AddrFields /\ lastCall.ok) =>
          IF lastCall.arg # NoAddr
          THEN lastCall.ret = lastCall.arg
          ELSE lastSet[lastCall.op] # NoAddr => lastCall.ret = lastSet[lastCall.op]

\* The netmask set by an accessor was read back while the address kept the
\* value given at creation.
C13_Witness ==
    /\ lastCall.op = "netmask" /\ lastCall.ok /\ lastCall.arg = NoAddr
    /\ lastCall.ret = <<192, 168, 0, 254>>
    /\ params.netmask = <<255, 255, 255, 0>>
    /\ lastSet["address"] = <<10, 21, 22, 1>>
    /\ lastSet["destination"] = <<192, 168, 0, 254>>

\* C14: after a successful allocation the getters reflect the Params. The
\* name is the one the kernel assigned (never the empty requested name), and
\* a successful get made before any accessor set anything returns the
\* configured value of a present field; flags() includes up and running when
\* bring-up was requested.
C14_GettersReflectParams ==
    /\ ifname = kern.name
    /\ ifname = KernelName(params.name)
    /\ ifname # ""
    /\ (lastCall.ok /\ pristine) =>
          CASE lastCall.op = "mtu" -> params.mtu # None => lastCall.ret = params.mtu
            [] lastCall.op = "flags" ->
                 params.up => HasBits(lastCall.ret, BitOr(IFF_UP, IFF_RUNNING))
            [] lastCall.op = "address" ->
                 params.address # NoAddr => lastCall.ret = params.address
            [] lastCall.op = "netmask" ->
                 params.netmask # NoAddr => lastCall.ret = params.netmask
            [] lastCall.op = "destination" ->
                 params.destination # NoAddr => lastCall.ret = params.destination
            [] lastCall.op = "broadcast" ->
                 params.broadcast # NoAddr => lastCall.ret = params.broadcast

\* The example's device: created with the empty name, its address read back.
C14_Witness ==
    /\ params = ExampleParams /\ ifname = "tun0"
    /\ pristine /\ lastCall.ok /\ lastCall.op = "address"
    /\ lastCall.ret = <<10, 21, 22, 1>>
    /\ prevFlags.arg = None

NamedOps ==
    GetOps \cup {"SIOCSIFMTU", "SIOCSIFADDR", "SIOCSIFNETMASK", "SIOCSIFDSTADDR",
                 "SIOCSIFBRDADDR", "SIOCGIFFLAGS", "SIOCSIFFLAGS"}

\* C15: the Interface's name is the name the kernel echoed at creation and
\* stays that name; the attach request carries the requested name, and every
\* get or set request on the control socket, during init or from a later
\* accessor call, carries the resolved name.
C15_ResolvedNameEverywhere ==
    /\ ifname = KernelName(params.name)
    /\ ifname = kern.name
    /\ \A i \in LogIdx :
          /\ log[i].op = "TUNSETIFF" => log[i].name = params.name
          /\ log[i].op \in NamedOps => log[i].name = ifname
    /\ \A i \in 1..Len(lastCall.reqs) :
          /\ lastCall.reqs[i].op \in NamedOps
          /\ lastCall.reqs[i].name = ifname

\* A device requested with the empty name: init and a later accessor call
\* both addressed it by the kernel's name.
C15_Witness ==
    /\ params.name = "" /\ ifname = "tun0"
    /\ \E i \in LogIdx : log[i].op = "SIOCSIFMTU" /\ log[i].name = "tun0"
    /\ lastCall.op = "broadcast" /\ lastCall.arg # NoAddr
    /\ Len(lastCall.reqs) = 1 /\ lastCall.reqs[1].name = "tun0"
    /\ st = "dropped"

\* The Params field a configuration request belongs to is present.
Requested(op) ==
    CASE op = "SIOCSIFMTU" -> params.mtu # None
      [] op = "TUNSETOWNER" -> params.owner # None
      [] op = "TUNSETGROUP" -> params.group # None
      [] op = "SIOCSIFADDR" -> params.address # NoAddr
      [] op = "SIOCSIFNETMASK" -> params.netmask # NoAddr
      [] op = "SIOCSIFDSTADDR" -> params.destination # NoAddr
      [] op = "SIOCSIFBRDADDR" -> params.broadcast # NoAddr
      [] op = "TUNSETPERSIST" -> params.persist
      [] op \in {"SIOCGIFFLAGS", "SIOCSIFFLAGS"} -> params.up
      [] op \in GetOps -> FALSE
      [] OTHER -> TRUE

EmptyParams ==
    /\ params.mtu = None /\ params.owner = None /\ params.group = None
    /\ params.address = NoAddr /\ params.netmask = NoAddr
    /\ params.destination = NoAddr /\ params.broadcast = NoAddr
    /\ ~params.persist /\ ~params.up

\* What init can configure, as the kernel holds it.
Configured(k) ==
    <<k.mtu, k.owner, k.group, k.addr, k.netmask, k.dst, k.brd, k.persist, k.flags>>

\* C16: init issues requests only for the fields that are present: no
\* persistence request when persist is false, no flags request when up is
\* false. With nothing present it issues no request at all, does not fail,
\* and the kernel's configuration stays as it was.
C16_OnlyPresentFields ==
    /\ \A i \in LogIdx : Requested(log[i].op)
    /\ EmptyParams =>
          /\ ConfigIdx = {}
          /\ Configured(kern) = Configured(KernInit)
          /\ st = "failed" => log[err].op \in {"TUNSETIFF", "socket", "register"}

\* A device created from Params with nothing to configure.
C16_Witness ==
    /\ st = "live" /\ EmptyParams /\ queues = 1
    /\ kern.name = "tun0" /\ kern.attached = {1}
    /\ Len(log) = 4

FlushResults == {TunIo_result(k.ret, k.errno) : k \in KernelAnswers("flush")}

\* C17: shutdown is flush. Every step of a poll_shutdown call is the step
\* poll_flush takes in the same state: it waits for write readiness, issues
\* the flush syscall, clears write readiness on a would-block and goes round
\* the loop, and returns any other result as it is.
C17_ShutdownIsFlush ==
    [][run = "shutdown" =>
         /\ (at = "ready" /\ at' = "sys") => ready["W"] /\ guard' = tick["W"]
         /\ (at = "ready" /\ run' = "none") =>
               \/ down /\ status'["W"] = "done" /\ result'["W"] = "gone"
               \/ ~down /\ ~ready["W"] /\ status'["W"] = "pending"
         /\ (at = "sys" /\ at' = "match") => sysres' \in FlushResults
         /\ (at = "match" /\ at' # "match") =>
               /\ ready'["W"] = (ready["W"] /\ ~(WouldBlock(sysres) /\ tick["W"] = guard))
               /\ ready'["R"] = ready["R"]
               /\ IF Poll_flush_match(sysres) = "return"
                  THEN status'["W"] = "done" /\ result'["W"] = sysres /\ run' = "none"
                  ELSE status'["W"] = "pending" /\ run' = "shutdown" /\ at' = "ready"
    ]_vars

\* A shutdown completed with the flush's result after a would-block, a new
\* write-readiness event and a second attempt.
C17_Witness ==
    /\ cur["W"] = "shutdown" /\ status["W"] = "done" /\ result["W"] = "ok"
    /\ lastTick["W"] = 2

Side(o) == IF o = "read" THEN "R" ELSE "W"
Other(d) == IF d = "R" THEN "W" ELSE "R"

\* C18: the read path and the write path are independent. A direction's
\* readiness is cleared only by a would-block of an operation of that
\* direction, and only when no newer event has arrived; the end of a try_io,
\* a completion or a cancellation on one side leaves the other side's
\* readiness, events and operation as they were; and a syscall is attempted
\* only after the readiness of its own direction was seen.
C18_DirectionsIndependent ==
    [][/\ \A d \in Dirs :
            (ready[d] /\ ~ready'[d]) =>
                /\ run # "none" /\ Side(run) = d /\ at = "match"
                /\ WouldBlock(sysres) /\ tick[d] = guard
       /\ (run # "none" /\ at = "match" /\ at' # "match") =>
            /\ ready'[Other(Side(run))] = ready[Other(Side(run))]
            /\ status'[Other(Side(run))] = status[Other(Side(run))]
            /\ result'[Other(Side(run))] = result[Other(Side(run))]
            /\ cur'[Other(Side(run))] = cur[Other(Side(run))]
            /\ tick' = tick /\ edge' = edge
       /\ (at = "ready" /\ at' = "sys") =>
            ready[Side(run)] /\ guard' = tick[Side(run)]
       /\ \A d \in Dirs :
            (status[d] = "pending" /\ status'[d] \in {"done", "cancelled"}) =>
                /\ ready'[Other(d)] = ready[Other(d)]
                /\ status'[Other(d)] = status[Other(d)]
                /\ tick' = tick /\ edge' = edge
    ]_vars

\* A write's would-block cleared write readiness while the read side kept its
\* readiness and its completed read.
C18_Witness ==
    /\ cur["W"] = "write" /\ status["W"] = "pending" /\ run = "none"
    /\ tick["W"] > 0 /\ ~ready["W"]
    /\ ready["R"] /\ status["R"] = "done" /\ result["R"] = "ok"

\* ------------------------------------------------------------- fairness
\* The transmit side while the device stays writable for a waiting writer:
\* it does not fill up under an operation that is pending.
TxChangeIdle ==
    /\ ~(txfree /\ status["W"] = "pending")
    /\ TxChange

\* A wake-up: the task of a pending operation is polled again.
Repoll(o) ==
    /\ status[Dir(o)] = "pending"
    /\ Poll(o)

\* Reads and writes that are never abandoned, with no racing reader of the
\* queue and a reactor that stays up.
FairOps == {"read", "write"}
NextIOFair ==
    \/ \E o \in FairOps : Poll(o)
    \/ \E o \in FairOps : PollReady(o)
    \/ \E o \in FairOps : Syscall(o)
    \/ \E o \in FairOps : TryIoMatch(o)
    \/ \E d \in Dirs : Consume(d)
    \/ PacketArrives
    \/ TxChangeIdle
    \/ \E d \in Dirs : ReactorEvent(d)

\* The executor polls a pending task again and again, a poll call runs to
\* its return, and the reactor delivers every event the kernel holds.
FairIO ==
    /\ \A o \in FairOps : SF_vars(Repoll(o))
    /\ \A o \in FairOps : WF_vars(PollReady(o))
    /\ \A o \in FairOps : WF_vars(Syscall(o))
    /\ \A o \in FairOps : WF_vars(TryIoMatch(o))
    /\ \A d \in Dirs : WF_vars(ReactorEvent(d))

SpecIOFair == InitIO /\ [][NextIOFair]_vars /\ FairIO

\* The device is readable (writable) for a pending read (write) and the
\* reactor can still report the event it holds.
Readable ==
    /\ status["R"] = "pending" /\ cur["R"] = "read"
    /\ rxq > 0
    /\ edge["R"] => tick["R"] < MaxTick
Writable ==
    /\ status["W"] = "pending" /\ cur["W"] = "write"
    /\ txfree
    /\ edge["W"] => tick["W"] < MaxTick

\* C19: a pending read (write) whose device is readable (writable) and stays
\* so until an attempt is made eventually completes with a result, given a
\* fair executor and reactor. Readiness cleared after a would-block never
\* hides a later event from it.
C19_PendingCompletes ==
    /\ Readable ~> (status["R"] = "done")
    /\ Writable ~> (status["W"] = "done")

\* A read that met a would-block, was woken by a later event and completed.
C19_Witness ==
    /\ status["R"] = "done" /\ result["R"] = "ok" /\ cur["R"] = "read"
    /\ lastTick["R"] = 2
    /\ status["W"] = "done" /\ result["W"] = "ok" /\ cur["W"] = "write"
    /\ lastTick["W"] = 2

\* The handle of request i was opened before it and not closed since.
IsOpenAt(i) ==
    \E j \in 1..(i - 1) :
        /\ log[j].op \in {"open", "socket"} /\ log[j].ok /\ log[j].fd = log[i].fd
        /\ \A k \in (j + 1)..(i - 1) : ~(log[k].op = "close" /\ log[k].fd = log[i].fd)

\* C20: no handle is used after its release or closed by two owners: every
\* request other than the opening ones, a close included, targets a handle
\* that is open when it is issued; no handle is closed twice; and the handles
\* of a live Tun (its device node and the control socket) are open.
C20_HandlesOpenWhenUsed ==
    /\ \A i \in LogIdx : log[i].op \notin {"open", "socket"} => IsOpenAt(i)
    /\ \A h \in Handles : closes[h] <= 1
    /\ st = "live" =>
          /\ closes[SOCK] = 0 /\ SOCK \in opened
          /\ \A q \in tuns : closes[q] = 0 /\ q \in opened
====
